---- MODULE Spec2Model ----
(***************************************************************************)
(* A model of py2neo/primitives.py: the property caster, PropertySet,      *)
(* EntitySetView / GraphView set algebra, and the Node and Relationship    *)
(* entities.                                                               *)
(*                                                                         *)
(* Python values are records [t, hi, v, items]:                            *)
(*   t      the Python type ("none", "bool", "int", "float", "str",        *)
(*          "list", "tuple", "set", "frozenset", "date", "decimal",        *)
(*          "complex", "object") or, for the outcome of a call that        *)
(*          raised, the kind of the error;                                 *)
(*   hi, v  a number hi * 2^63 + v (|v| small); a float or a Decimal       *)
(*          counts v in halves (v = 3 is 1.5); a str holds its identity    *)
(*          in v;                                                          *)
(*   items  the elements of a collection, in iteration order.              *)
(***************************************************************************)
EXTENDS Integers, Sequences, FiniteSets, TLC

VARIABLES pc,            \* position of the running scenario
          castIn,        \* the value handed to cast_property
          castOut,       \* what cast_property returned or raised
          pset,          \* a PropertySet: its entries in iteration order
          prev,          \* the entries of pset before the last call
          op,            \* the last call on pset and its outcome
          assigned,      \* per key: what the last assignment to it stored
          sinceClear,    \* the same, forgotten whenever pset is cleared
          seed,          \* the interpreter's string hash seed
          p1, p2,        \* two PropertySets built side by side
          h1, h2,        \* hash(p1) and hash(p2): an int, or the error raised
          x, y,          \* two variables of the caller, each holding a view
          z,             \* the view the last operator returned
          eprops,        \* the PropertySet of every node and relationship
          nmut           \* the number of property assignments made so far

castVars == <<castIn, castOut>>
propVars == <<pset, prev, op, assigned, sinceClear>>
hashVars == <<seed, p1, p2, h1, h2>>
graphVars == <<x, y, z, eprops, nmut>>

vars == <<pc, castVars, propVars, hashVars, graphVars>>

----------------------------------------------------------------------------
(* Bounds *)

MaxLen == 2          \* longest collection handed to cast_property
MaxInner == 1        \* longest collection nested inside a collection
MaxSeed == 1         \* string hash seeds 0..MaxSeed
MaxNodes == 2        \* the nodes the caller constructed
MaxMutations == 2    \* property assignments on entities in one run

----------------------------------------------------------------------------
(* Python values *)

Val(t, hi, v, items) == [t |-> t, hi |-> hi, v |-> v, items |-> items]

None == Val("none", 0, 0, <<>>)
PyTrue == Val("bool", 0, 1, <<>>)
PyFalse == Val("bool", 0, 0, <<>>)
PyInt(n) == Val("int", 0, n, <<>>)
PyBig(hi, n) == Val("int", hi, n, <<>>)
PyFloat(halves) == Val("float", 0, halves, <<>>)
PyStr(id) == Val("str", 0, id, <<>>)
PyDate(d) == Val("date", 0, d, <<>>)
PyDecimal(halves) == Val("decimal", 0, halves, <<>>)
PyComplex(re, im) == Val("complex", 0, 0, <<PyFloat(re), PyFloat(im)>>)
PyObject == Val("object", 0, 0, <<>>)
PyColl(kind, items) == Val(kind, 0, 0, items)
PyList(items) == PyColl("list", items)

\* The four ways cast_property raises.
OutOfRange == Val("OutOfRange", 0, 0, <<>>)
NestedListNotAllowed == Val("NestedListNotAllowed", 0, 0, <<>>)
MixedListType == Val("MixedListType", 0, 0, <<>>)
InvalidPropertyType == Val("InvalidPropertyType", 0, 0, <<>>)

ErrorKinds == {"OutOfRange", "NestedListNotAllowed", "MixedListType",
               "InvalidPropertyType"}

IsError(value) == value.t \in ErrorKinds

\* JAVA_INTEGER_MIN_VALUE = -2 ** 63, JAVA_INTEGER_MAX_VALUE = 2 ** 63 - 1
JAVA_INTEGER_MIN_VALUE == PyBig(-1, 0)
JAVA_INTEGER_MAX_VALUE == PyBig(1, -1)

\* a <= b on integers hi * 2^63 + v
IntLeq(a, b) == a.hi < b.hi \/ (a.hi = b.hi /\ a.v <= b.v)

\* isinstance(item, list_type): bool is a subclass of int
IsInstance(item, list_type) ==
    item.t = list_type \/ (list_type = "int" /\ item.t = "bool")

\* date.isoformat(): the str of a date, distinct from every other str
IsoFormat(value) == PyStr(100 + value.v)

CollectionTypes == {"frozenset", "list", "set", "tuple"}

----------------------------------------------------------------------------
(* cast_property *)

RECURSIVE cast_property(_)
RECURSIVE CastItems(_, _, _, _)

\* The loop of cast_property over the items from position i on, with the
\* list_type found so far ("" for None) and the items cast so far.
CastItems(items, i, list_type, list_value) ==
    IF i > Len(items) THEN PyList(list_value)
    ELSE LET item == cast_property(items[i]) IN
         IF IsError(item) THEN item
         ELSE IF list_type = ""
              THEN IF item.t = "list" THEN NestedListNotAllowed
                   ELSE CastItems(items, i + 1, item.t, Append(list_value, item))
              ELSE IF ~IsInstance(item, list_type) THEN MixedListType
                   ELSE CastItems(items, i + 1, list_type, Append(list_value, item))

cast_property(value) ==
    IF value.t \in {"bool", "float"} THEN value
    ELSE IF value.t = "int"
         THEN IF IntLeq(JAVA_INTEGER_MIN_VALUE, value)
                 /\ IntLeq(value, JAVA_INTEGER_MAX_VALUE)
              THEN value
              ELSE OutOfRange
    ELSE IF value.t = "str" THEN value
    ELSE IF value.t \in CollectionTypes THEN CastItems(value.items, 1, "", <<>>)
    ELSE IF value.t = "date" THEN IsoFormat(value)
    ELSE IF value.t = "decimal" THEN PyFloat(value.v)
    ELSE IF value.t = "complex" THEN PyList(value.items)
    ELSE InvalidPropertyType

----------------------------------------------------------------------------
(* dict: a sequence of entries [key, value] with distinct keys, in           *)
(* iteration order                                                           *)

Keys == {"k1", "k2"}

Entry(key, value) == [key |-> key, value |-> value]

dict_keys(d) == {d[i].key : i \in 1..Len(d)}

dict_index(d, key) == CHOOSE i \in 1..Len(d) : d[i].key = key

dict_get(d, key) ==
    IF key \in dict_keys(d) THEN d[dict_index(d, key)].value ELSE None

dict_setitem(d, key, value) ==
    IF key \in dict_keys(d)
    THEN [d EXCEPT ![dict_index(d, key)].value = value]
    ELSE Append(d, Entry(key, value))

dict_delitem(d, key) == SelectSeq(d, LAMBDA e : e.key # key)

dict_clear(d) == <<>>

\* Python's == on property values: numbers compare by value across bool, int
\* and float, lists item by item, everything else within its own type.
Numeric == {"bool", "int", "float"}

Halves(value) == IF value.t = "float" THEN value.v ELSE 2 * value.v

RECURSIVE PyEq(_, _)
PyEq(a, b) ==
    IF a.t \in Numeric /\ b.t \in Numeric
    THEN a.hi = b.hi /\ Halves(a) = Halves(b)
    ELSE /\ a.t = b.t
         /\ a.hi = b.hi
         /\ a.v = b.v
         /\ Len(a.items) = Len(b.items)
         /\ \A i \in 1..Len(a.items) : PyEq(a.items[i], b.items[i])

\* dict.__eq__
dict_eq(d1, d2) ==
    /\ dict_keys(d1) = dict_keys(d2)
    /\ \A k \in dict_keys(d1) : PyEq(dict_get(d1, k), dict_get(d2, k))

----------------------------------------------------------------------------
(* PropertySet.  A call's outcome is [self, raised, ret, done]: the entries  *)
(* afterwards, the error raised (None when it returned), the value           *)
(* returned, and the number of entries update got through.                   *)

Outcome(self, raised, ret, done) ==
    [self |-> self, raised |-> raised, ret |-> ret, done |-> done]

\* __setitem__ storing None like any other value instead of deleting the key
setitem_StoresNone(self, key, value) ==
    IF value = None
    THEN Outcome(dict_setitem(self, key, None), None, None, 0)
    ELSE LET cast == cast_property(value) IN
         IF IsError(cast) THEN Outcome(self, cast, None, 0)
         ELSE Outcome(dict_setitem(self, key, cast), None, None, 0)

\* __setitem__ storing the value before casting it
setitem_StoresBeforeCast(self, key, value) ==
    IF value = None
    THEN Outcome(IF key \in dict_keys(self) THEN dict_delitem(self, key) ELSE self,
                 None, None, 0)
    ELSE LET cast == cast_property(value) IN
         IF IsError(cast) THEN Outcome(dict_setitem(self, key, value), cast, None, 0)
         ELSE Outcome(dict_setitem(self, key, cast), None, None, 0)

PropertySet_setitem(self, key, value) ==
    IF value = None
    THEN Outcome(IF key \in dict_keys(self) THEN dict_delitem(self, key) ELSE self,
                 None, None, 0)
    ELSE LET cast == cast_property(value) IN
         IF IsError(cast) THEN Outcome(self, cast, None, 0)
         ELSE Outcome(dict_setitem(self, key, cast), None, None, 0)

RECURSIVE UpdateFrom(_, _, _)
\* the loop of update over the entries of the dict from position i on
UpdateFrom(self, items, i) ==
    IF i > Len(items) THEN Outcome(self, None, None, i - 1)
    ELSE LET r == PropertySet_setitem(self, items[i].key, items[i].value) IN
         IF r.raised # None THEN Outcome(r.self, r.raised, None, i - 1)
         ELSE UpdateFrom(r.self, items, i + 1)

PropertySet_update(self, iterable) == UpdateFrom(self, iterable, 1)

PropertySet_init(iterable) == PropertySet_update(<<>>, iterable)

PropertySet_replace(self, iterable) ==
    PropertySet_update(dict_clear(self), iterable)

PropertySet_getitem(self, key) == dict_get(self, key)

PropertySet_setdefault(self, key, default) ==
    IF key \in dict_keys(self)
    THEN Outcome(self, None, PropertySet_getitem(self, key), 0)
    ELSE IF default = None
         THEN Outcome(self, None, None, 0)
         ELSE Outcome(dict_setitem(self, key, default), None, default, 0)

\* PropertySet.__eq__ against another PropertySet
PropertySet_eq(self, other) == dict_eq(self, other)

----------------------------------------------------------------------------
(* PropertySet.__hash__ *)

PyTypeError == Val("TypeError", 0, 0, <<>>)

RECURSIVE BitXor(_, _)
\* a ^ b on naturals
BitXor(a, b) ==
    IF a = 0 THEN b
    ELSE IF b = 0 THEN a
    ELSE (((a % 2) + (b % 2)) % 2) + (2 * BitXor(a \div 2, b \div 2))

\* value ^= n: defined for bool and int, a TypeError for str, float and list
PyIXor(value, n) ==
    IF value.t \in {"bool", "int"} THEN PyInt(BitXor(value.v, n)) ELSE PyTypeError

\* The interpreter's hash(), which the module uses and does not define: equal
\* values hash equally (1, True and 1.0 alike), a str by the process's seed,
\* a tuple by mixing the hashes of its items in order.
HashMod == 64

StrHash(s, id) == (7 * id + 13 * s + 5) % HashMod

RECURSIVE PyHash(_, _)
RECURSIVE HashItems(_, _, _, _)
HashItems(s, items, i, acc) ==
    IF i > Len(items) THEN acc
    ELSE HashItems(s, items, i + 1, (31 * acc + PyHash(s, items[i]) + 3) % HashMod)

PyHash(s, value) ==
    IF value.t \in {"bool", "int"} THEN value.v % HashMod
    ELSE IF value.t = "float"
         THEN IF value.v % 2 = 0 THEN (value.v \div 2) % HashMod
              ELSE (17 * value.v + 9) % HashMod
    ELSE IF value.t = "str" THEN StrHash(s, value.v)
    ELSE HashItems(s, value.items, 1, 11)

\* hash((key, value)); keys are the strs "k1", "k2"
KeyId(key) == IF key = "k1" THEN 1 ELSE 2

TupleHash(s, key, value) ==
    HashItems(s, <<PyStr(KeyId(key)), value>>, 1, 11)

\* tuple(value)
PyTuple(value) == PyColl("tuple", value.items)

RECURSIVE HashLoop(_, _, _, _)
\* The loop of __hash__ from entry i on.  The loop variable is named value,
\* like the accumulator: each entry overwrites what was accumulated.
HashLoop(s, self, i, value) ==
    IF i > Len(self) THEN value
    ELSE LET key == self[i].key
             item == self[i].value
             next == IF item.t = "list"
                     THEN PyIXor(item, TupleHash(s, key, PyTuple(item)))
                     ELSE PyIXor(item, TupleHash(s, key, item))
         IN IF next = PyTypeError THEN PyTypeError
            ELSE HashLoop(s, self, i + 1, next)

PropertySet_hash(s, self) == HashLoop(s, self, 1, PyInt(0))

----------------------------------------------------------------------------
(* Entities and views.  A node is referred to by its number 1..MaxNodes and  *)
(* a relationship by its position in RelArgs; the None that stands for a     *)
(* missing endpoint is 0.  Every object that is a GraphView is a record      *)
(* [cls, id, nodes, relationships, order, size, endpoints, type]; an         *)
(* EntitySetView is the frozenset it wraps.                                  *)

NoneRef == 0

Nodes == 1..MaxNodes

\* the positional arguments the relationships were constructed with
RelArgs == << <<"T">>, <<1, 2>>, <<2, "T", 1>>, <<1, "T", 2, 2>> >>

Rels == 1..Len(RelArgs)

Range(s) == {s[i] : i \in 1..Len(s)}

EntitySetView_or(self, other) == self \cup other
EntitySetView_and(self, other) == self \cap other
EntitySetView_sub(self, other) == self \ other
EntitySetView_xor(self, other) == (self \ other) \cup (other \ self)
EntitySetView_eq(self, other) == self = other

GraphView_init(nodes, relationships) ==
    [cls |-> "GraphView", id |-> 0,
     nodes |-> nodes, relationships |-> relationships,
     order |-> Cardinality(nodes), size |-> Cardinality(relationships),
     endpoints |-> <<>>, type |-> "None"]

Node_init(id) ==
    [GraphView_init({id}, {}) EXCEPT !.cls = "Node", !.id = id]

Relationship_init(id, args) ==
    LET num_args == Len(args)
        endpoints == IF num_args = 0 THEN <<NoneRef, NoneRef>>
                     ELSE IF num_args = 1 THEN <<NoneRef, NoneRef>>
                     ELSE IF num_args = 2 THEN args
                     ELSE <<args[1]>> \o SubSeq(args, 3, num_args)
        type == IF num_args = 0 THEN "None"
                ELSE IF num_args = 1 THEN args[1]
                ELSE IF num_args = 2 THEN "None"
                ELSE args[2]
    IN [GraphView_init(Range(endpoints), {id})
            EXCEPT !.cls = "Relationship", !.id = id,
                   !.endpoints = endpoints, !.type = type]

\* the objects the caller constructed
Node(n) == Node_init(n)
Rel(r) == Relationship_init(r, RelArgs[r])

GraphView_or(self, other) ==
    GraphView_init(EntitySetView_or(self.nodes, other.nodes),
                   EntitySetView_or(self.relationships, other.relationships))

GraphView_and(self, other) ==
    GraphView_init(EntitySetView_and(self.nodes, other.nodes),
                   EntitySetView_and(self.relationships, other.relationships))

\* __sub__ without the nodes of the relationships that are left
sub_NoInduction(self, other) ==
    GraphView_init(EntitySetView_sub(self.nodes, other.nodes),
                   EntitySetView_sub(self.relationships, other.relationships))

GraphView_sub(self, other) ==
    LET relationships == EntitySetView_sub(self.relationships, other.relationships)
        nodes == EntitySetView_or(EntitySetView_sub(self.nodes, other.nodes),
                                  UNION {Rel(rel).nodes : rel \in relationships})
    IN GraphView_init(nodes, relationships)

\* __xor__ without the nodes of the relationships that are left
xor_NoInduction(self, other) ==
    GraphView_init(EntitySetView_xor(self.nodes, other.nodes),
                   EntitySetView_xor(self.relationships, other.relationships))

GraphView_xor(self, other) ==
    LET relationships == EntitySetView_xor(self.relationships, other.relationships)
        nodes == EntitySetView_or(EntitySetView_xor(self.nodes, other.nodes),
                                  UNION {Rel(rel).nodes : rel \in relationships})
    IN GraphView_init(nodes, relationships)

\* GraphView.__eq__ comparing the nodes alone
eq_NodesOnly(self, other) == EntitySetView_eq(self.nodes, other.nodes)

GraphView_eq(self, other) ==
    /\ EntitySetView_eq(self.nodes, other.nodes)
    /\ EntitySetView_eq(self.relationships, other.relationships)

\* Node.__eq__, Relationship.__eq__: self is other
Entity_eq(self, other) == self.cls = other.cls /\ self.id = other.id

\* self == other.  Node and Relationship define __eq__ and are subclasses of
\* GraphView, so theirs is the method Python calls when either side is one.
View_eq(self, other) ==
    IF self.cls # "GraphView" THEN Entity_eq(self, other)
    ELSE IF other.cls # "GraphView" THEN Entity_eq(other, self)
    ELSE GraphView_eq(self, other)

\* id(): distinct objects have distinct addresses; hash(None)
NodeHash(n) == IF n = NoneRef THEN 5 ELSE 16 * n
RelHash(r) == 16 * (MaxNodes + r) + 8

RECURSIVE XorNodes(_)
XorNodes(S) ==
    IF S = {} THEN 0
    ELSE LET n == CHOOSE m \in S : TRUE IN BitXor(NodeHash(n), XorNodes(S \ {n}))

RECURSIVE XorRels(_)
XorRels(S) ==
    IF S = {} THEN 0
    ELSE LET r == CHOOSE m \in S : TRUE IN BitXor(RelHash(r), XorRels(S \ {r}))

GraphView_hash(self) == BitXor(XorNodes(self.nodes), XorRels(self.relationships))

\* hash(self), by the class of self
View_hash(self) ==
    IF self.cls = "Node" THEN NodeHash(self.id)
    ELSE IF self.cls = "Relationship" THEN RelHash(self.id)
    ELSE GraphView_hash(self)

\* the PropertySets of the entities: one per node and per relationship
Entities == {<<"Node", n>> : n \in Nodes} \cup {<<"Relationship", r>> : r \in Rels}

\* property_keys: [raised, keys]; None among the nodes has no properties,
\* which raises AttributeError
GraphView_property_keys(self, props) ==
    IF NoneRef \in self.nodes
    THEN [raised |-> TRUE, keys |-> {}]
    ELSE [raised |-> FALSE,
          keys |-> UNION ({dict_keys(props[<<"Node", n>>]) : n \in self.nodes}
                          \cup {dict_keys(props[<<"Relationship", r>>]) :
                                   r \in self.relationships})]

\* entity[key] = value
PropertyContainer_setitem(props, entity, key, value) ==
    [props EXCEPT ![entity] = PropertySet_setitem(props[entity], key, value).self]

\* del entity[key]: dict.__delitem__, a KeyError for a key that is not there
PropertyContainer_delitem(props, entity, key) ==
    IF key \in dict_keys(props[entity])
    THEN [props EXCEPT ![entity] = dict_delitem(props[entity], key)]
    ELSE props

----------------------------------------------------------------------------
(* The record of a call on a PropertySet, and the parts of the state a       *)
(* scenario leaves alone                                                     *)

Call(name, key, value, iterable, r) ==
    [name |-> name, key |-> key, value |-> value, iterable |-> iterable,
     raised |-> r.raised, ret |-> r.ret, done |-> r.done]

NoCall == Call("", "", None, <<>>, Outcome(<<>>, None, None, 0))

Never == [k \in Keys |-> "never"]

Kind(value) == IF value = None THEN "none" ELSE "value"

RECURSIVE Record(_, _, _)
\* h after the assignments of the first n entries of items
Record(h, items, n) ==
    IF n = 0 THEN h
    ELSE [Record(h, items, n - 1) EXCEPT ![items[n].key] = Kind(items[n].value)]

IdleCast ==
    /\ castIn = None
    /\ castOut = None

IdleProps ==
    /\ pset = <<>>
    /\ prev = <<>>
    /\ op = NoCall
    /\ assigned = Never
    /\ sinceClear = Never

IdleHash ==
    /\ seed = 0
    /\ p1 = <<>>
    /\ p2 = <<>>
    /\ h1 = None
    /\ h2 = None

\* PropertyContainer.__init__ with no properties, for every entity
NoProps == [e \in Entities |-> PropertySet_init(<<>>).self]

IdleGraph ==
    /\ x = GraphView_init({}, {})
    /\ y = GraphView_init({}, {})
    /\ z = GraphView_init({}, {})
    /\ eprops = NoProps
    /\ nmut = 0

----------------------------------------------------------------------------
(* Inputs of the caster *)

SeqsUpTo(S, n) == UNION {[1..k -> S] : k \in 0..n}

InnerScalars == {PyInt(1), PyStr(1)}

ElemScalars == {None, PyTrue, PyInt(1), PyBig(1, 0), PyFloat(3), PyStr(1),
                PyDate(1), PyDecimal(5), PyComplex(2, 4), PyObject}

InnerColls == {PyColl(k, s) : k \in {"list"}, s \in SeqsUpTo(InnerScalars, MaxInner)}

Elements == ElemScalars \cup InnerColls

CastInputs ==
    ElemScalars \cup {PyBig(1, -1), PyBig(-1, 0), PyBig(-1, -1), PyFalse}
    \cup {PyColl(k, s) : k \in CollectionTypes, s \in SeqsUpTo(Elements, MaxLen)}

----------------------------------------------------------------------------
(* The caster applied to one input *)

InitCast ==
    /\ pc = "input"
    /\ castIn \in CastInputs
    /\ castOut = None
    /\ IdleProps
    /\ IdleHash
    /\ IdleGraph

Cast ==
    /\ pc = "input"
    /\ castOut' = cast_property(castIn)
    /\ pc' = "cast"
    /\ UNCHANGED <<castIn, propVars, hashVars, graphVars>>

NextCast == Cast

----------------------------------------------------------------------------
(* Calls on one PropertySet *)

\* values handed to __setitem__
SetValues == {None, PyInt(1), PyColl("tuple", <<PyInt(1)>>), PyObject,
              PyBig(1, 0), PyList(<<PyInt(1), PyStr(1)>>),
              PyList(<<PyList(<<>>)>>)}

\* defaults handed to setdefault
DefaultValues == {None, PyInt(1), PyColl("tuple", <<PyInt(1)>>), PyObject}

\* values in the dicts handed to the constructor, update and replace
MapValues == {None, PyInt(1), PyObject}

\* every dict over Keys and MapValues, in every iteration order
Dicts ==
    {d \in UNION {[1..n -> [key : Keys, value : MapValues]] : n \in 0..Cardinality(Keys)} :
        \A i, j \in 1..Len(d) : d[i].key = d[j].key => i = j}

InitProps ==
    /\ pc = "props"
    /\ IdleCast
    /\ pset = PropertySet_init(<<>>).self
    /\ prev = <<>>
    /\ op = NoCall
    /\ assigned = Never
    /\ sinceClear = Never
    /\ IdleHash
    /\ IdleGraph

\* PropertySet(iterable): a new object takes the place of the old one
New ==
    /\ pc = "props"
    /\ \E iterable \in Dicts : \E r \in {PropertySet_init(iterable)} :
        /\ pset' = r.self
        /\ prev' = <<>>
        /\ op' = Call("init", "", None, iterable, r)
        /\ assigned' = Record(Never, iterable, r.done)
        /\ sinceClear' = Record(Never, iterable, r.done)
    /\ UNCHANGED <<pc, castVars, hashVars, graphVars>>

\* pset[key] = value
SetItem ==
    /\ pc = "props"
    /\ \E key \in Keys, value \in SetValues :
       \E r \in {PropertySet_setitem(pset, key, value)} :
        /\ pset' = r.self
        /\ prev' = pset
        /\ op' = Call("set", key, value, <<>>, r)
        /\ assigned' = IF r.raised = None
                       THEN [assigned EXCEPT ![key] = Kind(value)] ELSE assigned
        /\ sinceClear' = IF r.raised = None
                         THEN [sinceClear EXCEPT ![key] = Kind(value)]
                         ELSE sinceClear
    /\ UNCHANGED <<pc, castVars, hashVars, graphVars>>

\* pset.update(iterable)
Update ==
    /\ pc = "props"
    /\ \E iterable \in Dicts : \E r \in {PropertySet_update(pset, iterable)} :
        /\ pset' = r.self
        /\ prev' = pset
        /\ op' = Call("update", "", None, iterable, r)
        /\ assigned' = Record(assigned, iterable, r.done)
        /\ sinceClear' = Record(sinceClear, iterable, r.done)
    /\ UNCHANGED <<pc, castVars, hashVars, graphVars>>

\* pset.replace(iterable)
Replace ==
    /\ pc = "props"
    /\ \E iterable \in Dicts : \E r \in {PropertySet_replace(pset, iterable)} :
        /\ pset' = r.self
        /\ prev' = pset
        /\ op' = Call("replace", "", None, iterable, r)
        /\ assigned' = Record(assigned, iterable, r.done)
        /\ sinceClear' = Record(Never, iterable, r.done)
    /\ UNCHANGED <<pc, castVars, hashVars, graphVars>>

\* pset.setdefault(key, default)
SetDefault ==
    /\ pc = "props"
    /\ \E key \in Keys, default \in DefaultValues :
       \E r \in {PropertySet_setdefault(pset, key, default)} :
        /\ pset' = r.self
        /\ prev' = pset
        /\ op' = Call("setdefault", key, default, <<>>, r)
        /\ assigned' = IF r.self # pset
                       THEN [assigned EXCEPT ![key] = Kind(default)] ELSE assigned
        /\ sinceClear' = IF r.self # pset
                         THEN [sinceClear EXCEPT ![key] = Kind(default)]
                         ELSE sinceClear
    /\ UNCHANGED <<pc, castVars, hashVars, graphVars>>

NextProps == New \/ SetItem \/ Update \/ Replace \/ SetDefault

----------------------------------------------------------------------------
(* Two PropertySets built entry by entry, then hashed *)

HashValues == {PyTrue, PyInt(1), PyInt(2), PyFloat(3), PyStr(1),
               PyList(<<PyInt(1), PyInt(2)>>)}

InitHash ==
    /\ pc = "build"
    /\ IdleCast
    /\ IdleProps
    /\ IdleGraph
    /\ seed \in 0..MaxSeed
    /\ p1 = PropertySet_init(<<>>).self
    /\ p2 = PropertySet_init(<<>>).self
    /\ h1 = None
    /\ h2 = None

\* p1[key] = value
Set1 ==
    /\ pc = "build"
    /\ \E key \in Keys, value \in HashValues :
          p1' = PropertySet_setitem(p1, key, value).self
    /\ UNCHANGED <<pc, castVars, propVars, graphVars, seed, p2, h1, h2>>

\* p2[key] = value
Set2 ==
    /\ pc = "build"
    /\ \E key \in Keys, value \in HashValues :
          p2' = PropertySet_setitem(p2, key, value).self
    /\ UNCHANGED <<pc, castVars, propVars, graphVars, seed, p1, h1, h2>>

\* hash(p1), hash(p2)
Hash ==
    /\ pc = "build"
    /\ h1' = PropertySet_hash(seed, p1)
    /\ h2' = PropertySet_hash(seed, p2)
    /\ pc' = "hashed"
    /\ UNCHANGED <<castVars, propVars, graphVars, seed, p1, p2>>

NextHash == Set1 \/ Set2 \/ Hash

----------------------------------------------------------------------------
(* One operator applied to two views *)

EntityViews == {Node(n) : n \in Nodes} \cup {Rel(r) : r \in Rels}

\* every GraphView(nodes, relationships) over the entities
BuiltViews ==
    {GraphView_init(ns, rs) : ns \in SUBSET (Nodes \cup {NoneRef}), rs \in SUBSET Rels}

AllViews == EntityViews \cup BuiltViews

InitAlgebra ==
    /\ pc = "operands"
    /\ IdleCast
    /\ IdleProps
    /\ IdleHash
    /\ x \in AllViews
    /\ y \in AllViews
    /\ z = GraphView_init({}, {})
    /\ eprops = NoProps
    /\ nmut = 0

Others == <<castVars, propVars, hashVars>>

\* z = x | y
Or ==
    /\ pc = "operands"
    /\ z' = GraphView_or(x, y)
    /\ pc' = "or"
    /\ UNCHANGED <<x, y, eprops, nmut, Others>>

\* z = x & y
And ==
    /\ pc = "operands"
    /\ z' = GraphView_and(x, y)
    /\ pc' = "and"
    /\ UNCHANGED <<x, y, eprops, nmut, Others>>

\* z = x - y
Sub ==
    /\ pc = "operands"
    /\ z' = GraphView_sub(x, y)
    /\ pc' = "sub"
    /\ UNCHANGED <<x, y, eprops, nmut, Others>>

\* z = x ^ y
Xor ==
    /\ pc = "operands"
    /\ z' = GraphView_xor(x, y)
    /\ pc' = "xor"
    /\ UNCHANGED <<x, y, eprops, nmut, Others>>

NextAlgebra == Or \/ And \/ Sub \/ Xor

----------------------------------------------------------------------------
(* A caller that keeps two views in x and y, combines them over and over,    *)
(* and assigns and deletes properties of the entities                        *)

InitViews ==
    /\ pc = "views"
    /\ IdleCast
    /\ IdleProps
    /\ IdleHash
    /\ x \in EntityViews
    /\ y \in EntityViews
    /\ z = GraphView_init({}, {})
    /\ eprops = NoProps
    /\ nmut = 0

\* x = entity, y = entity
Load ==
    /\ pc = "views"
    /\ \E e \in EntityViews : \/ x' = e /\ y' = y
                              \/ y' = e /\ x' = x
    /\ UNCHANGED <<pc, z, eprops, nmut, Others>>

\* x = a | b or y = a | b, for a and b among x and y
Union ==
    /\ pc = "views"
    /\ \E a, b \in {x, y} : \/ x' = GraphView_or(a, b) /\ y' = y
                            \/ y' = GraphView_or(a, b) /\ x' = x
    /\ UNCHANGED <<pc, z, eprops, nmut, Others>>

Intersection ==
    /\ pc = "views"
    /\ \E a, b \in {x, y} : \/ x' = GraphView_and(a, b) /\ y' = y
                            \/ y' = GraphView_and(a, b) /\ x' = x
    /\ UNCHANGED <<pc, z, eprops, nmut, Others>>

Difference ==
    /\ pc = "views"
    /\ \E a, b \in {x, y} : \/ x' = GraphView_sub(a, b) /\ y' = y
                            \/ y' = GraphView_sub(a, b) /\ x' = x
    /\ UNCHANGED <<pc, z, eprops, nmut, Others>>

SymmetricDifference ==
    /\ pc = "views"
    /\ \E a, b \in {x, y} : \/ x' = GraphView_xor(a, b) /\ y' = y
                            \/ y' = GraphView_xor(a, b) /\ x' = x
    /\ UNCHANGED <<pc, z, eprops, nmut, Others>>

NextViews == Load \/ Union \/ Intersection \/ Difference \/ SymmetricDifference

\* values assigned to the properties of entities
EntityValues == {None, PyInt(1)}

\* entity[key] = value
SetProperty ==
    /\ pc = "views"
    /\ nmut < MaxMutations
    /\ \E e \in Entities, key \in Keys, value \in EntityValues :
          eprops' = PropertyContainer_setitem(eprops, e, key, value)
    /\ nmut' = nmut + 1
    /\ UNCHANGED <<pc, x, y, z, Others>>

\* del entity[key]
DelProperty ==
    /\ pc = "views"
    /\ nmut < MaxMutations
    /\ \E e \in Entities, key \in Keys :
          eprops' = PropertyContainer_delitem(eprops, e, key)
    /\ nmut' = nmut + 1
    /\ UNCHANGED <<pc, x, y, z, Others>>

NextKeys == Load \/ Union \/ Difference \/ SetProperty \/ DelProperty

----------------------------------------------------------------------------
(* Specifications *)

SpecCast == InitCast /\ [][NextCast]_vars

SpecProps == InitProps /\ [][NextProps]_vars

SpecHash == InitHash /\ [][NextHash]_vars

SpecAlgebra == InitAlgebra /\ [][NextAlgebra]_vars

SpecViews == InitViews /\ [][NextViews]_vars

SpecKeys == InitViews /\ [][NextKeys]_vars

----------------------------------------------------------------------------
(* Claims about cast_property *)

CastOfItems == [i \in 1..Len(castIn.items) |-> cast_property(castIn.items[i])]

CastScalar(value) == ~IsError(value) /\ value.t # "list"

\* C6: casting a collection whose elements are of different canonical types
\* (bool, int, float and str being distinct) raises MixedListType whatever
\* their order, so that every collection cast successfully is of one type,
\* its order and length kept.
C6_MixedListRejected ==
    (pc = "cast" /\ castIn.t \in CollectionTypes) =>
        /\ ((\A i \in 1..Len(castIn.items) : CastScalar(CastOfItems[i]))
              /\ (\E i, j \in 1..Len(castIn.items) : CastOfItems[i].t # CastOfItems[j].t))
           => castOut = MixedListType
        /\ castOut.t = "list" =>
              /\ castOut.items = CastOfItems
              /\ \A i, j \in 1..Len(castOut.items) :
                    castOut.items[i].t = castOut.items[j].t

\* C7: casting a collection with a collection among its elements, first or
\* later, raises NestedListNotAllowed (here: whenever every element would be
\* cast without error on its own, so that no other error is due).
C7_NestedListRejected ==
    (/\ pc = "cast"
     /\ castIn.t \in CollectionTypes
     /\ \A i \in 1..Len(castIn.items) : ~IsError(CastOfItems[i])
     /\ \E i \in 1..Len(castIn.items) : castIn.items[i].t \in CollectionTypes)
    => castOut = NestedListNotAllowed

----------------------------------------------------------------------------
(* Claims about PropertySet *)

\* C2 as stated: a key is present if and only if the last value assigned to
\* it was not None.
C2_PresentIffLastAssigned ==
    pc = "props" =>
        \A k \in Keys : (k \in dict_keys(pset)) <=> (assigned[k] = "value")

\* C2 as amended: a key is present if and only if it was assigned since the
\* PropertySet was last cleared (by its construction or by replace) and the
\* last such assignment was not None; no key maps to None; setting a key to
\* None raises nothing, removes it if present and changes nothing else, and
\* the result equals the PropertySet without that key.
C2_PresentIffAssignedSinceClear ==
    pc = "props" =>
        /\ \A k \in Keys : (k \in dict_keys(pset)) <=> (sinceClear[k] = "value")
        /\ \A i \in 1..Len(pset) : pset[i].value # None
        /\ (op.name = "set" /\ op.value = None) =>
              /\ op.raised = None
              /\ op.key \notin dict_keys(pset)
              /\ \A k \in Keys \ {op.key} : dict_get(pset, k) = dict_get(prev, k)
              /\ PropertySet_eq(pset, dict_delitem(prev, op.key))

C2_Witness ==
    /\ pc = "props"
    /\ op.name = "set" /\ op.value = None /\ op.key \in dict_keys(prev)
    /\ \E k \in Keys : assigned[k] = "value" /\ sinceClear[k] = "never"

AfterAssignments(base, items, n, key) ==
    IF \E i \in 1..n : items[i].key = key
    THEN LET i == CHOOSE j \in 1..n : items[j].key = key IN
         IF items[i].value = None THEN None ELSE cast_property(items[i].value)
    ELSE dict_get(base, key)

C5_SetDefaultCasts ==
    (pc = "props" /\ op.name = "setdefault") =>
        IF op.key \in dict_keys(prev)
        THEN op.raised = None /\ op.ret = dict_get(prev, op.key) /\ pset = prev
        ELSE IF op.value = None
             THEN op.raised = None /\ op.ret = None /\ pset = prev
             ELSE LET cast == cast_property(op.value) IN
                  IF IsError(cast)
                  THEN op.raised = cast /\ pset = prev
                  ELSE /\ op.raised = None
                       /\ op.ret = cast
                       /\ pset = dict_setitem(prev, op.key, cast)

----------------------------------------------------------------------------
(* Claims about PropertySet.__hash__ *)

\* the xor over all entries of hash((key, value)), a list hashed as a tuple
RECURSIVE XorOfEntries(_, _, _)
XorOfEntries(s, self, i) ==
    IF i > Len(self) THEN 0
    ELSE BitXor(TupleHash(s, self[i].key,
                          IF self[i].value.t = "list" THEN PyTuple(self[i].value)
                          ELSE self[i].value),
                XorOfEntries(s, self, i + 1))

\* C4: hashing a PropertySet never fails and yields the xor over its entries
\* of hash((key, value)); two PropertySets that are equal, whatever the order
\* their entries were inserted in, hash equally.
C4_EqualHashEqually ==
    pc = "hashed" =>
        /\ h1 = PyInt(XorOfEntries(seed, p1, 1))
        /\ PropertySet_eq(p1, p2) => h1 = h2


----------------------------------------------------------------------------
(* Claims about GraphView *)

\* the endpoints of relationship r, as the constructor stored them
EndpointsOf(r) == Range(Rel(r).endpoints)

Closed(view) == \A r \in view.relationships : EndpointsOf(r) \subseteq view.nodes

\* C1: x - y is a view whose relationships are those of x that are not in y
\* and whose nodes are those of x that are not in y together with every
\* endpoint of every relationship left, so that no relationship left lacks
\* an endpoint, even one that is a node of y; with no relationship left the
\* nodes are those of x that are not in y.
C1_DifferenceInducesEndpoints ==
    pc = "sub" =>
        /\ z.cls = "GraphView"
        /\ z.relationships = x.relationships \ y.relationships
        /\ z.nodes = (x.nodes \ y.nodes)
                        \cup UNION {EndpointsOf(r) : r \in z.relationships}
        /\ Closed(z)
        /\ z.relationships = {} => z.nodes = x.nodes \ y.nodes

\* relationship 2, from node 1 to node 2, minus node 2 keeps both endpoints
C1_Witness ==
    /\ pc = "sub"
    /\ x = Rel(2) /\ y = Node(2)
    /\ z.nodes = {1, 2} /\ z.relationships = {2}

Held == {x, y, z}

SameSets(u, w) == u.nodes = w.nodes /\ u.relationships = w.relationships

\* C8 as stated: any two views, a Node or a Relationship among them, are
\* equal if and only if their nodes are equal and their relationships are
\* equal, and equal views hash equally.
C8_EqualIffSameSets ==
    pc # "operands" =>
        \A u, w \in Held :
            /\ View_eq(u, w) <=> SameSets(u, w)
            /\ View_eq(u, w) => View_hash(u) = View_hash(w)

\* C8 as amended: two views neither of which is a Node or a Relationship
\* are equal if and only if their nodes are equal and their relationships
\* are equal; a Node or a Relationship is equal to itself and to nothing
\* else, not even to a view of the same nodes and relationships; equal
\* views hash equally.
C8_EqualIffSameSetsOrSameEntity ==
    pc # "operands" =>
        \A u, w \in Held :
            /\ (u.cls = "GraphView" /\ w.cls = "GraphView")
                  => (View_eq(u, w) <=> SameSets(u, w))
            /\ (u.cls # "GraphView" \/ w.cls # "GraphView")
                  => (View_eq(u, w) <=> (u.cls = w.cls /\ u.id = w.id))
            /\ View_eq(u, w) => View_hash(u) = View_hash(w)

\* node 1 against the view node 1 | node 1
C8_Witness ==
    /\ pc = "or"
    /\ x = Node(1) /\ y = Node(1)
    /\ SameSets(x, z)
    /\ ~View_eq(x, z) /\ ~View_eq(z, x) /\ View_eq(x, y)

\* C9: whatever properties were assigned to or deleted from the entities,
\* the property_keys of every view that holds them is the union of the keys
\* their PropertySets have now.
C9_PropertyKeysFollow ==
    (pc = "views" /\ nmut > 0) =>
        \A u \in {x, y} :
            LET keys == GraphView_property_keys(u, eprops) IN
            /\ ~keys.raised
            /\ keys.keys =
                  UNION ({dict_keys(eprops[<<"Node", n>>]) : n \in u.nodes \cap Nodes}
                         \cup {dict_keys(eprops[<<"Relationship", r>>]) :
                                  r \in u.relationships})

\* C10: every view reached from nodes and relationships by the four
\* operators holds the endpoints of each of its relationships, and its order
\* and size are the numbers of its nodes and relationships.
C10_ViewsClosed ==
    pc = "views" =>
        \A u \in {x, y} :
            /\ Closed(u)
            /\ u.order = Cardinality(u.nodes)
            /\ u.size = Cardinality(u.relationships)

\* a view made by the operators that holds relationships 1 and 2 and so
\* nodes 1 and 2 and the None of relationship 1
C10_Witness ==
    /\ pc = "views"
    /\ x.cls = "GraphView"
    /\ x.relationships = {1, 2}
    /\ x.nodes = {NoneRef, 1, 2}
    /\ y.cls = "GraphView" /\ y.relationships = {2} /\ y.nodes = {1, 2}

====
